---- MODULE Spec2Model ----
(***************************************************************************)
(* A model of the byte cursor of src/src/parse.rs (struct Bytes and its    *)
(* scanners) and of the flag set of src/src/extensions.rs.                 *)
(*                                                                         *)
(* Bytes are the integers 0..255; a buffer is a sequence of bytes.  The    *)
(* cursor is the record [bytes, column, line] of struct Bytes.  Every      *)
(* method of Bytes is an operator from a cursor to the cursor it leaves    *)
(* and the value it returns; every action applies one method to the        *)
(* current cursor.                                                         *)
(***************************************************************************)
EXTENDS Integers, Sequences, FiniteSets, TLC

VARIABLES
    input,   \* the whole buffer handed to Bytes::new
    bytes,   \* Bytes.bytes : the unread rest of the buffer
    column,  \* Bytes.column
    line,    \* Bytes.line
    pre,     \* the cursor as the last operation found it
    op,      \* the last operation: [name, arg]
    res,     \* what the last operation returned
    ext      \* the Extensions value in hand

vars == <<input, bytes, column, line, pre, op, res, ext>>

---------------------------------------------------------------------------
(* Byte values of the characters the scanners name.                        *)

BS == 8
TAB == 9
NL == 10
FF == 12
CR == 13
SP == 32
QUOTE == 34
APOS == 39
PLUS == 43
COMMA == 44
MINUS == 45
DOT == 46
BACKSLASH == 92
UNDERSCORE == 95

Ch_0 == 48
Ch_9 == 57
Ch_A == 65
Ch_E == 69
Ch_F == 70
Ch_Z == 90
Ch_a == 97
Ch_b == 98
Ch_e == 101
Ch_f == 102
Ch_l == 108
Ch_n == 110
Ch_r == 114
Ch_s == 115
Ch_t == 116
Ch_u == 117
Ch_z == 122

DIGITS == Ch_0 .. Ch_9
FLOAT_CHARS == DIGITS \cup {DOT, PLUS, MINUS, Ch_e, Ch_E}
IDENT_FIRST == (Ch_A .. Ch_Z) \cup (Ch_a .. Ch_z) \cup {UNDERSCORE}
IDENT_CHAR == IDENT_FIRST \cup DIGITS
WHITE_SPACE == {NL, TAB, CR, SP}

---------------------------------------------------------------------------
(* Results: Result<T> is Ok(v) or Err(e).  A call that never returns is    *)
(* NoReturn(how): "hang" (it loops forever) or "panic".                    *)

Ok(v) == [kind |-> "ok", err |-> "", val |-> v]
Err(e) == [kind |-> "err", err |-> e, val |-> <<>>]
NoReturn(how) == [kind |-> how, err |-> "", val |-> <<>>]
NoResult == [kind |-> "none", err |-> "", val |-> <<>>]

Cur(b, c, l) == [bytes |-> b, column |-> c, line |-> l]
Out(c, r) == [cur |-> c, res |-> r]

---------------------------------------------------------------------------
(* The cursor primitives.                                                  *)

new(b) == Cur(b, 1, 1)

\* Option<u8>: <<>> is None, <<b>> is Some(b).
peek(c) == IF Len(c.bytes) = 0 THEN <<>> ELSE <<c.bytes[1]>>

advance_single_drop_reset(c) ==
    IF peek(c) = <<>> THEN Out(c, Err("Eof"))
    ELSE IF peek(c)[1] = NL
         THEN Out(Cur(Tail(c.bytes), c.column + 1, c.line + 1), Ok(<<>>))
         ELSE Out(Cur(Tail(c.bytes), c.column + 1, c.line), Ok(<<>>))

advance_single(c) ==
    IF peek(c) = <<>> THEN Out(c, Err("Eof"))
    ELSE IF peek(c)[1] = NL
         THEN Out(Cur(Tail(c.bytes), 1, c.line + 1), Ok(<<>>))
         ELSE Out(Cur(Tail(c.bytes), c.column + 1, c.line), Ok(<<>>))

RECURSIVE advance_lenient(_, _)
advance_lenient(c, n) ==
    IF n = 0 THEN Out(c, Ok(<<>>))
    ELSE LET o == advance_single(c)
         IN  IF o.res.kind = "err" THEN Out(o.cur, Ok(<<>>))
             ELSE advance_lenient(o.cur, n - 1)

RECURSIVE advance(_, _)
advance(c, n) ==
    IF n = 0 THEN Out(c, Ok(<<>>))
    ELSE LET o == advance_single(c)
         IN  IF o.res.kind = "err" THEN o ELSE advance(o.cur, n - 1)

\* s.bytes().enumerate().all(|(i, b)| self.bytes.get(i) == Some(b))
starts_with(c, s) ==
    \A i \in 1 .. Len(s) : i <= Len(c.bytes) /\ c.bytes[i] = s[i]

RECURSIVE consume_eager(_, _)
consume_eager(c, s) ==
    IF s = <<>> THEN Out(c, Ok(TRUE))
    ELSE IF peek(c) = <<Head(s)>>
    THEN consume_eager(advance_single(c).cur, Tail(s))
    ELSE Out(c, Ok(FALSE))

consume(c, s) ==
    IF starts_with(c, s)
    THEN Out(advance(c, Len(s)).cur, Ok(TRUE))
    ELSE Out(c, Ok(FALSE))

eat_byte(c) ==
    IF peek(c) # <<>>
    THEN Out(advance_single(c).cur, Ok(peek(c)[1]))
    ELSE Out(c, Err("Eof"))

RECURSIVE count_while(_, _, _)
count_while(b, allowed, i) ==
    IF i < Len(b) /\ b[i + 1] \in allowed
    THEN count_while(b, allowed, i + 1)
    ELSE i

next_bytes_contained_in(c, allowed) == count_while(c.bytes, allowed, 0)

RECURSIVE skip_ws(_)
skip_ws(c) ==
    IF peek(c) # <<>> /\ peek(c)[1] \in WHITE_SPACE
    THEN skip_ws(advance_single(c).cur)
    ELSE Out(c, Ok(<<>>))

comma_no_skip(c) == consume(c, <<COMMA>>)

comma(c) ==
    LET o == consume(c, <<COMMA>>)
    IN  IF o.res.val THEN Out(skip_ws(o.cur).cur, Ok(TRUE))
        ELSE Out(o.cur, Ok(FALSE))

---------------------------------------------------------------------------
(* The primitive scanners.                                                 *)

LitTrue == <<Ch_t, Ch_r, Ch_u, Ch_e>>
LitFalse == <<Ch_f, Ch_a, Ch_l, Ch_s, Ch_e>>

bool_no_false(c) ==
    LET t == consume(c, LitTrue)
    IN  IF t.res.val THEN Out(t.cur, Ok(TRUE))
        ELSE Out(t.cur, Err("ExpectedBoolean"))

bool(c) ==
    LET t == consume(c, LitTrue)
    IN  IF t.res.val THEN Out(t.cur, Ok(TRUE))
        ELSE LET f == consume(t.cur, LitFalse)
             IN  IF f.res.val THEN Out(f.cur, Ok(FALSE))
                 ELSE Out(f.cur, Err("ExpectedBoolean"))

char_any_escape(c) ==
    LET q == consume(c, <<APOS>>)
    IN  IF ~q.res.val THEN Out(q.cur, Err("ExpectedChar"))
        ELSE
        LET e1 == eat_byte(q.cur)
        IN  IF e1.res.kind = "err" THEN e1
            ELSE
            LET e2 == IF e1.res.val = BACKSLASH THEN eat_byte(e1.cur) ELSE e1
            IN  IF e2.res.kind = "err" THEN e2
                ELSE
                LET q2 == consume(e2.cur, <<APOS>>)
                IN  IF ~q2.res.val THEN Out(q2.cur, Err("ExpectedChar"))
                    ELSE Out(q2.cur, Ok(e2.res.val))

char(c) ==
    LET q == consume(c, <<APOS>>)
    IN  IF ~q.res.val THEN Out(q.cur, Err("ExpectedChar"))
        ELSE
        LET e1 == eat_byte(q.cur)
        IN  IF e1.res.kind = "err" THEN e1
            ELSE
            LET e2 == IF e1.res.val = BACKSLASH THEN eat_byte(e1.cur) ELSE e1
            IN  IF e2.res.kind = "err" THEN e2
                ELSE IF e1.res.val = BACKSLASH
                        /\ e2.res.val # BACKSLASH /\ e2.res.val # APOS
                THEN Out(e2.cur, Err("InvalidEscape"))
                ELSE
                LET q2 == consume(e2.cur, <<APOS>>)
                IN  IF ~q2.res.val THEN Out(q2.cur, Err("ExpectedChar"))
                    ELSE Out(q2.cur, Ok(e2.res.val))

identifier_first_only(c) ==
    IF peek(c) = <<>> THEN Out(c, Err("Eof"))
    ELSE IF peek(c)[1] \in IDENT_FIRST
    THEN LET n == next_bytes_contained_in(c, IDENT_FIRST)
         IN  Out(advance(c, n).cur, Ok(SubSeq(c.bytes, 1, n)))
    ELSE Out(c, Err("ExpectedIdentifier"))

identifier(c) ==
    IF peek(c) = <<>> THEN Out(c, Err("Eof"))
    ELSE IF peek(c)[1] \in IDENT_FIRST
    THEN LET n == next_bytes_contained_in(c, IDENT_CHAR)
         IN  Out(advance(c, n).cur, Ok(SubSeq(c.bytes, 1, n)))
    ELSE Out(c, Err("ExpectedIdentifier"))

---------------------------------------------------------------------------
(* Numbers.  T is the target type of the generic scanners; FromStr is the  *)
(* target type's own parser.  The integer targets of the model are the     *)
(* 8-bit ones, so that a short digit run can overflow them.                *)

IntTypes == {"u8", "i8"}
SignedTypes == {"i8"}
IntBits == 8
MaxOf(T) == IF T \in SignedTypes THEN 2 ^ (IntBits - 1) - 1 ELSE 2 ^ IntBits - 1

RECURSIVE int_from_str_ascii(_, _, _, _)
int_from_str_ascii(s, T, i, acc) ==
    IF acc < 0 \/ i > Len(s) THEN acc
    ELSE LET n == acc * 10 + s[i]
         IN  int_from_str_ascii(s, T, i + 1, IF n > MaxOf(T) THEN -1 ELSE n)

\* <T as FromStr>::from_str on a run of ASCII digits: the digits are
\* accumulated most significant first with checked arithmetic; -1 is Err.
RECURSIVE int_from_str(_, _, _, _)
int_from_str(s, T, i, acc) ==
    IF acc < 0 \/ i > Len(s) THEN acc
    ELSE LET n == acc * 10 + (s[i] - Ch_0)
         IN  int_from_str(s, T, i + 1, IF n > MaxOf(T) THEN -1 ELSE n)

unsigned_integer_early_return(c, T) ==
    LET n == next_bytes_contained_in(c, DIGITS)
    IN  IF n = 0 THEN Out(c, Err("Eof"))
        ELSE LET v == int_from_str(SubSeq(c.bytes, 1, n), T, 1, 0)
             IN  IF v < 0 THEN Out(c, Err("ExpectedInteger"))
                 ELSE Out(advance(c, n).cur, Ok(v))

unsigned_integer(c, T) ==
    LET n == next_bytes_contained_in(c, DIGITS)
    IN  IF n = 0 THEN Out(c, Err("Eof"))
        ELSE LET v == int_from_str(SubSeq(c.bytes, 1, n), T, 1, 0)
             IN  Out(advance(c, n).cur,
                     IF v < 0 THEN Err("ExpectedInteger") ELSE Ok(v))

signed_integer(c, T) ==
    IF peek(c) = <<>> THEN Out(c, Err("Eof"))
    ELSE IF peek(c)[1] = PLUS
    THEN unsigned_integer(advance_single(c).cur, T)
    ELSE IF peek(c)[1] = MINUS
    THEN LET u == unsigned_integer(advance_single(c).cur, T)
         IN  IF u.res.kind = "ok" THEN Out(u.cur, Ok(0 - u.res.val)) ELSE u
    ELSE unsigned_integer(c, T)

\* <f64 as FromStr>::from_str accepts  Sign? Number Exp?  with
\* Number ::= Digit+ | Digit+ '.' Digit* | Digit* '.' Digit+  and
\* Exp ::= ('e' | 'E') Sign? Digit+  (the run holds no other letters).
float_from_str_ok(s) ==
    LET len == Len(s)
        at(i) == IF i < len THEN s[i + 1] ELSE 0 - 1
        i0 == IF at(0) \in {PLUS, MINUS} THEN 1 ELSE 0
        n1 == count_while(s, DIGITS, i0) - i0
        i1 == i0 + n1
        dot == at(i1) = DOT
        n2 == IF dot THEN count_while(s, DIGITS, i1 + 1) - (i1 + 1) ELSE 0
        i2 == IF dot THEN i1 + 1 + n2 ELSE i1
        i3 == IF at(i2 + 1) \in {PLUS, MINUS} THEN i2 + 2 ELSE i2 + 1
        n3 == count_while(s, DIGITS, i3) - i3
    IN  /\ n1 + n2 >= 1
        /\ \/ i2 = len
           \/ at(i2) \in {Ch_e, Ch_E} /\ n3 >= 1 /\ i3 + n3 = len

\* The value of the float is not modelled: Ok carries the scanned text.
float(c) ==
    LET n == next_bytes_contained_in(c, FLOAT_CHARS)
        s == SubSeq(c.bytes, 1, n)
    IN  Out(advance(c, n).cur,
            IF float_from_str_ok(s) THEN Ok([text |-> s]) ELSE Err("ExpectedFloat"))

---------------------------------------------------------------------------
(* UTF-8 and Unicode scalar values, as the standard library decides them.  *)

\* std::str::from_utf8 / String::from_utf8: is b[i+1..] well-formed UTF-8?
RECURSIVE utf8_ok(_, _)
utf8_ok(b, i) ==
    LET len == Len(b)
        at(k) == b[i + k]
        cont(k) == i + k <= len /\ at(k) \in 128 .. 191
    IN  IF i >= len THEN TRUE
        ELSE IF at(1) < 128 THEN utf8_ok(b, i + 1)
        ELSE IF at(1) \in 194 .. 223 THEN cont(2) /\ utf8_ok(b, i + 2)
        ELSE IF at(1) = 224
             THEN i + 2 <= len /\ at(2) \in 160 .. 191 /\ cont(3) /\ utf8_ok(b, i + 3)
        ELSE IF at(1) = 237
             THEN i + 2 <= len /\ at(2) \in 128 .. 159 /\ cont(3) /\ utf8_ok(b, i + 3)
        ELSE IF at(1) \in 225 .. 239
             THEN cont(2) /\ cont(3) /\ utf8_ok(b, i + 3)
        ELSE IF at(1) = 240
             THEN i + 2 <= len /\ at(2) \in 144 .. 191 /\ cont(3) /\ cont(4)
                  /\ utf8_ok(b, i + 4)
        ELSE IF at(1) \in 241 .. 243
             THEN cont(2) /\ cont(3) /\ cont(4) /\ utf8_ok(b, i + 4)
        ELSE IF at(1) = 244
             THEN i + 2 <= len /\ at(2) \in 128 .. 143 /\ cont(3) /\ cont(4)
                  /\ utf8_ok(b, i + 4)
        ELSE FALSE

from_utf8(b) == IF utf8_ok(b, 0) THEN Ok(b) ELSE Err("Utf8Error")

SurrogateLo == 55296    \* 0xD800
LowSurrogateLo == 56320 \* 0xDC00
SurrogateHi == 57343    \* 0xDFFF
ScalarMax == 1114111    \* 0x10FFFF

\* std::char::from_u32: <<>> is None, <<n>> is Some(char n).
char_from_u32(n) ==
    IF n > ScalarMax \/ n \in SurrogateLo .. SurrogateHi THEN <<>> ELSE <<n>>

\* char::encode_utf8 (its length is char::len_utf8).
encode_utf8(n) ==
    IF n < 128 THEN <<n>>
    ELSE IF n < 2048 THEN <<192 + (n \div 64), 128 + (n % 64)>>
    ELSE IF n < 65536
    THEN <<224 + (n \div 4096), 128 + ((n \div 64) % 64), 128 + (n % 64)>>
    ELSE <<240 + (n \div 262144), 128 + ((n \div 4096) % 64),
           128 + ((n \div 64) % 64), 128 + (n % 64)>>

\* Bitwise or of two naturals.
RECURSIVE bit_or(_, _)
bit_or(a, b) ==
    IF a = 0 THEN b
    ELSE IF b = 0 THEN a
    ELSE (IF a % 2 = 1 \/ b % 2 = 1 THEN 1 ELSE 0) + 2 * bit_or(a \div 2, b \div 2)

U16 == 65536

---------------------------------------------------------------------------
(* The string scanner.                                                     *)

\* The value of one hex digit, or -1.
hex_digit(c) ==
    IF c \in DIGITS THEN c - Ch_0
    ELSE IF c \in Ch_a .. Ch_f THEN 10 + (c - Ch_a)
    ELSE IF c \in Ch_A .. Ch_F THEN 10 + (c - Ch_A)
    ELSE 0 - 1

\* decode_hex_escape with k digits still to read and n accumulated (u16).
RECURSIVE decode_hex_loop(_, _, _)
decode_hex_loop(c, k, n) ==
    IF k = 0 THEN Out(c, Ok(n))
    ELSE LET e == eat_byte(c)
         IN  IF e.res.kind = "err" THEN e
             ELSE IF hex_digit(e.res.val) < 0 THEN Out(e.cur, Err("InvalidEscape"))
             ELSE decode_hex_loop(e.cur, k - 1, (n * 16 + hex_digit(e.res.val)) % U16)

decode_hex_escape(c) == decode_hex_loop(c, 4, 0)

combine_surrogates_no_offset(n1, n2) ==
    bit_or((n1 - SurrogateLo) * 1024, n2 - LowSurrogateLo)

\* (((n1 - 0xD800) as u32) << 10 | (n2 - 0xDC00) as u32) + 0x1_0000
\* Both operands are 16-bit differences widened to u32: the shift stays below
\* 2^26 and the sum below 2^27, so the 32-bit width is never reached.
combine_surrogates(n1, n2) ==
    bit_or((n1 - SurrogateLo) * 1024, n2 - LowSurrogateLo) + 65536

simple_escape_raw(b) ==
    IF b \in {QUOTE, BACKSLASH, Ch_b, Ch_f, Ch_n, Ch_r, Ch_t} THEN b ELSE 0 - 1

\* The single byte a one-letter escape stands for, or -1.
simple_escape(b) ==
    IF b = QUOTE THEN QUOTE
    ELSE IF b = BACKSLASH THEN BACKSLASH
    ELSE IF b = Ch_b THEN BS
    ELSE IF b = Ch_f THEN FF
    ELSE IF b = Ch_n THEN NL
    ELSE IF b = Ch_r THEN CR
    ELSE IF b = Ch_t THEN TAB
    ELSE 0 - 1

\* match ::std::char::from_u32(n) { Some(c) => c, None => InvalidEscape }
scalar_or_invalid(c, n) ==
    IF char_from_u32(n) = <<>> THEN Out(c, Err("InvalidEscape"))
    ELSE Out(c, Ok(char_from_u32(n)[1]))

\* The high surrogate n1 and the result h2 of reading the second code unit.
low_surrogate(n1, h2) ==
    IF h2.res.kind = "err" THEN h2
    ELSE IF h2.res.val < LowSurrogateLo \/ h2.res.val > SurrogateHi
    THEN Out(h2.cur, Err("InvalidEscape"))
    ELSE scalar_or_invalid(h2.cur, combine_surrogates(n1, h2.res.val))

expect_u_unchecked(n1, b) ==
    IF b.res.kind = "err" THEN b
    ELSE low_surrogate(n1, decode_hex_escape(b.cur))

\* The high surrogate n1 and the result b of eating the byte that must be 'u'.
expect_u(n1, b) ==
    IF b.res.kind = "err" THEN b
    ELSE IF b.res.val # Ch_u THEN Out(b.cur, Err("InvalidEscape"))
    ELSE low_surrogate(n1, decode_hex_escape(b.cur))

\* The high surrogate n1 and the result b of eating the byte that must be '\'.
expect_backslash(n1, b) ==
    IF b.res.kind = "err" THEN b
    ELSE IF b.res.val # BACKSLASH THEN Out(b.cur, Err("InvalidEscape"))
    ELSE expect_u(n1, eat_byte(b.cur))

\* The match on the first code unit, h1 being the result of reading it.
first_unit(h1) ==
    IF h1.res.kind = "err" THEN h1
    ELSE IF h1.res.val \in LowSurrogateLo .. SurrogateHi
    THEN Out(h1.cur, Err("InvalidEscape"))
    ELSE IF h1.res.val \in SurrogateLo .. LowSurrogateLo - 1
    THEN expect_backslash(h1.res.val, eat_byte(h1.cur))
    ELSE scalar_or_invalid(h1.cur, h1.res.val)

\* The char of a \u escape whose 'u' has been read: Ok(scalar) or an error.
unicode_escape(c) == first_unit(decode_hex_escape(c))

\* parse_str_escape: the cursor it leaves, its result, and the store.
parse_str_escape(c, store) ==
    LET e == eat_byte(c)
    IN  IF e.res.kind = "err" THEN [cur |-> e.cur, res |-> e.res, store |-> store]
        ELSE IF simple_escape(e.res.val) >= 0
        THEN [cur |-> e.cur, res |-> Ok(<<>>),
              store |-> Append(store, simple_escape(e.res.val))]
        ELSE IF e.res.val = Ch_u
        THEN LET u == unicode_escape(e.cur)
             IN  IF u.res.kind = "err"
                 THEN [cur |-> u.cur, res |-> u.res, store |-> store]
                 ELSE [cur |-> u.cur, res |-> Ok(<<>>),
                       store |-> store \o encode_utf8(u.res.val)]
        ELSE [cur |-> e.cur, res |-> Err("InvalidEscape"), store |-> store]

\* (0..).flat_map(|i| self.bytes.get(i)).enumerate()
\*      .find(|&(_, &b)| b == b'\\' || b == b'"')
\* The range 0.. has no end: past the end of the buffer get(i) is None, which
\* flat_map skips, and the search goes on.  It yields the index of the first
\* delimiter, or -1 when the buffer holds none and the search never yields.
RECURSIVE find_delimiter(_, _)
find_delimiter(b, i) ==
    IF i >= Len(b) THEN 0 - 1
    ELSE IF b[i + 1] = BACKSLASH \/ b[i + 1] = QUOTE THEN i
    ELSE find_delimiter(b, i + 1)

\* What a search that finds nothing ends as: the counter of 0.. reaches
\* usize::MAX and the increment panics where overflow is checked, and wraps
\* where it is not, so that the search starts over, forever.
endless_search(overflow_checks) ==
    NoReturn(IF overflow_checks THEN "panic" ELSE "hang")

Slice(s) == [variant |-> "Slice", bytes |-> s]
Allocated(s) == [variant |-> "Allocated", bytes |-> s]

string_slice_keeps_quote(c, i) ==
    IF from_utf8(SubSeq(c.bytes, 1, i)).kind = "err"
    THEN Out(c, from_utf8(SubSeq(c.bytes, 1, i)))
    ELSE Out(advance(c, i).cur, Ok(Slice(SubSeq(c.bytes, 1, i))))

\* The closing quote found i bytes ahead with no escape before it: the
\* bytes up to it are returned as a Slice.
string_slice(c, i) ==
    IF from_utf8(SubSeq(c.bytes, 1, i)).kind = "err"
    THEN Out(c, from_utf8(SubSeq(c.bytes, 1, i)))
    ELSE Out(advance(c, i + 1).cur, Ok(Slice(SubSeq(c.bytes, 1, i))))

string_close_reverts(c, i, s) ==
    Out(advance(c, i + 1).cur,
        IF from_utf8(s).kind = "err" THEN from_utf8(s)
        ELSE Ok(Slice(SubSeq(c.bytes, 1, i))))

\* The closing quote found i bytes ahead after an escape: the buffer s,
\* which holds those bytes already, is returned as Allocated.
string_close(c, i, s) ==
    Out(advance(c, i + 1).cur,
        IF from_utf8(s).kind = "err" THEN from_utf8(s) ELSE Ok(Allocated(s)))

\* The loop of string(): the cursor stands i bytes before a backslash.
RECURSIVE string_loop(_, _, _, _)

\* Its second half, p being what parse_str_escape left.
string_resume(p, overflow_checks) ==
    IF p.res.kind = "err" THEN Out(p.cur, p.res)
    ELSE IF find_delimiter(p.cur.bytes, 0) < 0
    THEN Out(p.cur, endless_search(overflow_checks))
    ELSE IF p.cur.bytes[find_delimiter(p.cur.bytes, 0) + 1] = QUOTE
    THEN string_close(p.cur, find_delimiter(p.cur.bytes, 0),
                      p.store \o SubSeq(p.cur.bytes, 1, find_delimiter(p.cur.bytes, 0)))
    ELSE string_loop(p.cur, find_delimiter(p.cur.bytes, 0),
                     p.store \o SubSeq(p.cur.bytes, 1, find_delimiter(p.cur.bytes, 0)),
                     overflow_checks)

string_loop(c, i, s, overflow_checks) ==
    string_resume(parse_str_escape(advance(c, i + 1).cur, s), overflow_checks)

\* string() once the opening quote is consumed.
string_body(c, overflow_checks) ==
    IF find_delimiter(c.bytes, 0) < 0 THEN Out(c, endless_search(overflow_checks))
    ELSE IF c.bytes[find_delimiter(c.bytes, 0) + 1] = QUOTE
    THEN string_slice(c, find_delimiter(c.bytes, 0))
    ELSE string_loop(c, find_delimiter(c.bytes, 0),
                     SubSeq(c.bytes, 1, find_delimiter(c.bytes, 0)), overflow_checks)

string_eats_first(c, overflow_checks) ==
    IF ~consume(c, <<QUOTE>>).res.val THEN Out(eat_byte(c).cur, Err("ExpectedString"))
    ELSE string_body(consume(c, <<QUOTE>>).cur, overflow_checks)

string(c, overflow_checks) ==
    IF ~consume(c, <<QUOTE>>).res.val THEN Out(c, Err("ExpectedString"))
    ELSE string_body(consume(c, <<QUOTE>>).cur, overflow_checks)

---------------------------------------------------------------------------
(* The flag set of src/src/extensions.rs: a usize whose bits are the       *)
(* flags.                                                                  *)

UNWRAP_NEWTYPES == 1
IMPLICIT_SOME == 2
UNWRAP_VARIANT_NEWTYPES == 4

\* Extensions::empty() and a | b.
empty == 0
bitor(a, b) == bit_or(a, b)

default == empty

\* The bytes of "unwrap_newtypes", "implicit_some", "unwrap_variant_newtypes".
Ident_unwrap_newtypes ==
    <<117, 110, 119, 114, 97, 112, 95, 110, 101, 119, 116, 121, 112, 101,
      115>>
Ident_implicit_some ==
    <<105, 109, 112, 108, 105, 99, 105, 116, 95, 115, 111, 109, 101>>
Ident_unwrap_variant_newtypes ==
    <<117, 110, 119, 114, 97, 112, 95, 118, 97, 114, 105, 97, 110, 116, 95,
      110, 101, 119, 116, 121, 112, 101, 115>>

\* u8::to_ascii_lowercase on every byte of s.
to_ascii_lowercase(s) ==
    [k \in 1 .. Len(s) |-> IF s[k] \in Ch_A .. Ch_Z THEN s[k] + (Ch_a - Ch_A) ELSE s[k]]

from_ident_ignore_case(ident) ==
    IF to_ascii_lowercase(ident) = Ident_unwrap_newtypes THEN <<UNWRAP_NEWTYPES>>
    ELSE IF to_ascii_lowercase(ident) = Ident_implicit_some THEN <<IMPLICIT_SOME>>
    ELSE IF to_ascii_lowercase(ident) = Ident_unwrap_variant_newtypes
    THEN <<UNWRAP_VARIANT_NEWTYPES>>
    ELSE <<>>

\* Option<Extensions>: <<>> is None, <<e>> is Some(e).
from_ident(ident) ==
    IF ident = Ident_unwrap_newtypes THEN <<UNWRAP_NEWTYPES>>
    ELSE IF ident = Ident_implicit_some THEN <<IMPLICIT_SOME>>
    ELSE IF ident = Ident_unwrap_variant_newtypes THEN <<UNWRAP_VARIANT_NEWTYPES>>
    ELSE <<>>

\* The document text of a flag set and its reading back.  The writer and
\* the reader of documents are not part of the sources at hand: the text is
\* taken to be the integer representation of the bits, written in decimal
\* and read back with the scanner's unsigned_integer, nothing but white
\* space being allowed behind it.  The bits are below 8, so the 8-bit target
\* stands for usize.
RECURSIVE to_decimal(_)
to_decimal(n) ==
    IF n < 10 THEN <<Ch_0 + n>> ELSE to_decimal(n \div 10) \o <<Ch_0 + (n % 10)>>

to_string(e) == to_decimal(e)

from_str_end(o) ==
    IF o.res.kind = "err" THEN o
    ELSE IF skip_ws(o.cur).cur.bytes # <<>>
    THEN Out(skip_ws(o.cur).cur, Err("TrailingCharacters"))
    ELSE Out(skip_ws(o.cur).cur, o.res)

from_str(text) == from_str_end(unsigned_integer(new(text), "u8"))

---------------------------------------------------------------------------
(* Bounds and the buffers the cursor is built from.                        *)

MaxPieces == 3      \* pieces in a buffer of punctuation, words, floats, chars
MaxNumPieces == 2   \* pieces in a buffer of signs and integers
MaxStrPieces == 4   \* pieces after the opening quote of a string buffer
MaxAdvance == 2     \* the largest n of advance(n)
UnitSamples == 24   \* sampled code units of each surrogate range, less one

\* Every concatenation of at most k members of P.
RECURSIVE Concats(_, _)
Concats(P, k) ==
    IF k = 0 THEN {<<>>}
    ELSE LET S == Concats(P, k - 1)
         IN  S \cup {s \o p : s \in S, p \in P}

Digit(d) == Ch_0 + d

CursorPieces ==
    {<<NL>>, <<SP>>, <<COMMA>>, LitTrue, <<Ch_f, Ch_a, Ch_l, Ch_s>>, <<Ch_e>>}

NumPieces ==
    {<<MINUS>>, <<PLUS>>, <<Ch_0>>, <<Ch_a>>,
     <<Digit(1), Digit(2), Digit(7)>>, <<Digit(1), Digit(2), Digit(8)>>,
     <<Digit(2), Digit(5), Digit(5)>>, <<Digit(2), Digit(5), Digit(6)>>}

FloatPieces == {<<Digit(1)>>, <<DOT>>, <<Ch_e>>, <<PLUS>>}

CharPieces == {<<APOS>>, <<APOS, BACKSLASH>>, <<BACKSLASH>>, <<Ch_a>>, <<195>>}

\* A comma, the white space bytes, and a form feed, which is none.
WsPieces == {<<COMMA>>, <<TAB>>, <<CR>>, <<NL, SP>>, <<FF>>}

\* The ends of the letter ranges, the underscore, a digit, and the bytes
\* next to 'Z' and to 'a'.
IdentPieces ==
    {<<Ch_A>>, <<Ch_z>>, <<UNDERSCORE>>, <<Ch_9>>, <<Ch_Z + 1>>, <<Ch_a - 1>>}

StrPieces ==
    {<<Ch_a>>, <<NL>>, <<QUOTE>>, <<BACKSLASH>>, <<BACKSLASH, Ch_n>>,
     <<195>>, <<169>>}

QuotedInputs(P, k) == {<<QUOTE>> \o s : s \in Concats(P, k)}

\* The buffers of the cursor machine: short ones of every token kind.
Inputs ==
    Concats(CursorPieces, MaxPieces) \cup Concats(NumPieces, MaxNumPieces)
    \cup Concats(FloatPieces, MaxPieces) \cup Concats(CharPieces, MaxPieces)
    \cup Concats(IdentPieces, MaxPieces) \cup Concats(WsPieces, MaxPieces)
    \cup QuotedInputs(StrPieces, MaxPieces - 1)

\* The four hex digits of the code unit n, in upper or lower case letters.
HexChar(d, upper) ==
    IF d < 10 THEN Ch_0 + d ELSE (IF upper THEN Ch_A ELSE Ch_a) + (d - 10)

Hex4(n, upper) ==
    <<HexChar(n \div 4096, upper), HexChar((n \div 256) % 16, upper),
      HexChar((n \div 16) % 16, upper), HexChar(n % 16, upper)>>

UnicodeEscape(n, upper) == <<BACKSLASH, Ch_u>> \o Hex4(n, upper)

\* UnitSamples + 1 code units spread evenly over lo..hi, both ends included.
Samples(lo, hi) == {lo + ((hi - lo) * i) \div UnitSamples : i \in 0 .. UnitSamples}

\* The sampled surrogates, and the pair of U+1F600: D83D, DE00.
HighSurrogates == Samples(SurrogateLo, LowSurrogateLo - 1) \cup {SurrogateLo + 61}
LowSurrogates == Samples(LowSurrogateLo, SurrogateHi) \cup {LowSurrogateLo + 512}

\* "\uHHHH\uLLLL" for the sampled surrogate pairs, in every letter case.
PairInputs ==
    {<<QUOTE>> \o UnicodeEscape(h, uh) \o UnicodeEscape(l, ul) \o <<QUOTE>> :
        h \in HighSurrogates, l \in LowSurrogates, uh \in BOOLEAN, ul \in BOOLEAN}

\* Code units at the edges of the surrogate ranges, and two ordinary ones.
EdgeUnits ==
    {65, 233, SurrogateLo - 1, SurrogateLo, LowSurrogateLo - 1, LowSurrogateLo,
     SurrogateHi, SurrogateHi + 1, U16 - 1}

Ch_x == 120

Prefixes(s) == {SubSeq(s, 1, k) : k \in 0 .. Len(s)}
Substitutions(s, b) == {[s EXCEPT ![k] = b] : k \in 2 .. Len(s)}

\* One or two \u escapes of edge code units between quotes.
EdgeTokens(upper) ==
    {<<QUOTE>> \o UnicodeEscape(a, upper) \o t \o <<QUOTE>> :
        a \in EdgeUnits,
        t \in {<<>>} \cup {UnicodeEscape(b, upper) : b \in EdgeUnits}}

\* Every such token, whole, cut short, and with one byte replaced by 'x'.
EdgeInputs ==
    UNION {Prefixes(s) \cup Substitutions(s, Ch_x) :
             s \in EdgeTokens(TRUE) \cup EdgeTokens(FALSE)}

\* The buffers of the string machine: string tokens, whole and broken.
StringInputs ==
    QuotedInputs(StrPieces, MaxStrPieces) \cup PairInputs \cup EdgeInputs

\* The three names, and names next to them: cut short, with one letter or
\* every letter in upper case, and with a byte before or behind.
IdentNames ==
    {Ident_unwrap_newtypes, Ident_implicit_some, Ident_unwrap_variant_newtypes}

InUpperCase(s, K) ==
    [k \in 1 .. Len(s) |->
        IF k \in K /\ s[k] \in Ch_a .. Ch_z THEN s[k] - (Ch_a - Ch_A) ELSE s[k]]

NearNames(s) ==
    Prefixes(s)
    \cup {InUpperCase(s, {k}) : k \in 1 .. Len(s)}
    \cup {InUpperCase(s, 1 .. Len(s))}
    \cup {s \o <<b>> : b \in {Ch_s, UNDERSCORE, SP}}
    \cup {<<b>> \o s : b \in {UNDERSCORE, SP}}

Idents == UNION {NearNames(s) : s \in IdentNames}

Literals == {<<>>, LitTrue, LitFalse, <<COMMA>>, <<APOS>>, <<QUOTE>>}

---------------------------------------------------------------------------
(* The cursor machine: a driver builds a cursor over a buffer and calls    *)
(* the scanners one after the other.                                       *)

Init ==
    /\ input \in Inputs
    /\ bytes = new(input).bytes
    /\ column = new(input).column
    /\ line = new(input).line
    /\ pre = new(input)
    /\ op = [name |-> "new", arg |-> <<>>]
    /\ res = NoResult
    /\ ext = default

cursor == Cur(bytes, column, line)

\* The call before returned, so the driver can make the next one.
Returned == res.kind \in {"none", "ok", "err"}

Call(name, arg, o) ==
    /\ pre' = cursor
    /\ bytes' = o.cur.bytes
    /\ column' = o.cur.column
    /\ line' = o.cur.line
    /\ op' = [name |-> name, arg |-> arg]
    /\ res' = o.res
    /\ UNCHANGED <<input, ext>>

Peek ==
    /\ Returned
    /\ Call("peek", <<>>, Out(cursor, Ok(peek(cursor))))

Advance ==
    \E n \in 0 .. MaxAdvance :
        /\ Returned
        /\ Call("advance", n, advance(cursor, n))

AdvanceSingle ==
    /\ Returned
    /\ Call("advance_single", <<>>, advance_single(cursor))

EatByte ==
    /\ Returned
    /\ Call("eat_byte", <<>>, eat_byte(cursor))

Consume ==
    \E s \in Literals :
        /\ Returned
        /\ Call("consume", s, consume(cursor, s))

SkipWs ==
    /\ Returned
    /\ Call("skip_ws", <<>>, skip_ws(cursor))

Comma ==
    /\ Returned
    /\ Call("comma", <<>>, comma(cursor))

Bool ==
    /\ Returned
    /\ Call("bool", <<>>, bool(cursor))

Char ==
    /\ Returned
    /\ Call("char", <<>>, char(cursor))

Identifier ==
    /\ Returned
    /\ Call("identifier", <<>>, identifier(cursor))

UnsignedInteger ==
    \E T \in IntTypes :
        /\ Returned
        /\ Call("unsigned_integer", T, unsigned_integer(cursor, T))

SignedInteger ==
    \E T \in SignedTypes :
        /\ Returned
        /\ Call("signed_integer", T, signed_integer(cursor, T))

Float ==
    /\ Returned
    /\ Call("float", <<>>, float(cursor))

String ==
    \E overflow_checks \in BOOLEAN :
        /\ Returned
        /\ Call("string", <<>>, string(cursor, overflow_checks))

Next ==
    \/ Peek
    \/ Advance
    \/ AdvanceSingle
    \/ EatByte
    \/ Consume
    \/ SkipWs
    \/ Comma
    \/ Bool
    \/ Char
    \/ Identifier
    \/ UnsignedInteger
    \/ SignedInteger
    \/ Float
    \/ String

Spec == Init /\ [][Next]_vars

---------------------------------------------------------------------------
(* The string machine: a driver builds a cursor over a buffer that starts  *)
(* a string token and calls string().                                      *)

InitString ==
    /\ input \in StringInputs
    /\ bytes = new(input).bytes
    /\ column = new(input).column
    /\ line = new(input).line
    /\ pre = new(input)
    /\ op = [name |-> "new", arg |-> <<>>]
    /\ res = NoResult
    /\ ext = default

StringOnce ==
    /\ op.name = "new"
    /\ String

NextString == StringOnce

SpecString == InitString /\ [][NextString]_vars

---------------------------------------------------------------------------
(* The flag machine: a driver starts from the default flag set, looks up   *)
(* names and adds flags.                                                   *)

InitExt ==
    /\ input = <<>>
    /\ bytes = new(input).bytes
    /\ column = new(input).column
    /\ line = new(input).line
    /\ pre = new(input)
    /\ op = [name |-> "new", arg |-> <<>>]
    /\ res = NoResult
    /\ ext = default

\* A call that leaves the cursor alone.
CallExt(name, arg, r, e) ==
    /\ op' = [name |-> name, arg |-> arg]
    /\ res' = r
    /\ ext' = e
    /\ UNCHANGED <<input, bytes, column, line, pre>>

Default == CallExt("default", <<>>, Ok(default), default)

FromIdent ==
    \E ident \in Idents :
        CallExt("from_ident", ident, Ok(from_ident(ident)), ext)

BitOr ==
    \E f \in {UNWRAP_NEWTYPES, IMPLICIT_SOME, UNWRAP_VARIANT_NEWTYPES} :
        CallExt("bitor", f, Ok(bitor(ext, f)), bitor(ext, f))

\* roundtrip_extensions: to_string(&ext), then from_str of the text.
ToRonString ==
    /\ input' = to_string(ext)
    /\ op' = [name |-> "to_string", arg |-> <<>>]
    /\ res' = Ok(to_string(ext))
    /\ UNCHANGED <<bytes, column, line, pre, ext>>

FromStr ==
    /\ op.name = "to_string"
    /\ pre' = new(input)
    /\ bytes' = from_str(input).cur.bytes
    /\ column' = from_str(input).cur.column
    /\ line' = from_str(input).cur.line
    /\ op' = [name |-> "from_str", arg |-> <<>>]
    /\ res' = from_str(input).res
    /\ UNCHANGED <<input, ext>>

NextExt ==
    \/ Default
    \/ FromIdent
    \/ BitOr
    \/ ToRonString
    \/ FromStr

SpecExt == InitExt /\ [][NextExt]_vars

---------------------------------------------------------------------------
(* What the claims speak of.                                               *)

\* The bytes consumed so far: the buffer less its unread rest.
Consumed == SubSeq(input, 1, Len(input) - Len(bytes))

Newlines(s) == Cardinality({i \in 1 .. Len(s) : s[i] = NL})

\* The number of bytes of s after its last newline (all of them if none).
SinceNewline(s) ==
    Len(s) - (CHOOSE i \in 0 .. Len(s) :
                 /\ i > 0 => s[i] = NL
                 /\ \A j \in i + 1 .. Len(s) : s[j] # NL)

IsPrefix(s, b) == Len(s) <= Len(b) /\ SubSeq(b, 1, Len(s)) = s
Drop(b, n) == SubSeq(b, n + 1, Len(b))

---------------------------------------------------------------------------
(* C1: after any sequence of cursor operations, successful or failed, the  *)
(* unread bytes are a suffix of the buffer, line is 1 plus the number of   *)
(* newline bytes consumed so far, and column is 1 plus the number of bytes *)
(* consumed since the last consumed newline (since the start if none):     *)
(* every consumed newline adds one to line and sets column to 1, every     *)
(* other consumed byte adds one to column.                                 *)
C1_LineColumn ==
    /\ Len(bytes) <= Len(input)
    /\ bytes = Drop(input, Len(input) - Len(bytes))
    /\ line = 1 + Newlines(Consumed)
    /\ column = 1 + SinceNewline(Consumed)

\* A failed advance(n) that stopped at the end of the buffer, after a
\* consumed newline and a byte behind it.
C1_Witness ==
    /\ op.name = "advance"
    /\ res.kind = "err"
    /\ line = 2
    /\ column = 2

(* C2: consume(literal) is all or nothing.  If the unread bytes start with *)
(* the whole literal, exactly its bytes are consumed and true is returned; *)
(* otherwise (a byte differs, or the literal is longer than the unread     *)
(* rest) the cursor is left as it was and false is returned; it is never   *)
(* an error.                                                               *)
C2_ConsumeAllOrNothing ==
    op.name = "consume" =>
        /\ res.kind = "ok"
        /\ IF IsPrefix(op.arg, pre.bytes)
           THEN res.val = TRUE /\ bytes = Drop(pre.bytes, Len(op.arg))
           ELSE res.val = FALSE /\ cursor = pre

\* consume("false") on the buffer "fals": the literal is longer than the
\* unread rest, which agrees with it as far as it goes.
C2_Witness ==
    /\ op.name = "consume"
    /\ op.arg = LitFalse
    /\ pre.bytes = <<Ch_f, Ch_a, Ch_l, Ch_s>>
    /\ res = Ok(FALSE)

---------------------------------------------------------------------------
(* The string token as the specification describes it, read one byte at a  *)
(* time.  Reading the body of a token (the bytes after the opening quote)  *)
(* ends in one of three ways: "closed" (an unescaped quote is reached),    *)
(* "bad" (a malformed escape is reached) or "ends" (the body runs out      *)
(* first).  out collects the content, esc tells whether an escape was      *)
(* read, used counts the bytes read, closing quote included.               *)

Token(st, out, esc, used) == [st |-> st, out |-> out, esc |-> esc, used |-> used]
TokenEnds == Token("ends", <<>>, FALSE, 0)
TokenBad == Token("bad", <<>>, FALSE, 0)

\* \" \\ \b \f \n \r \t stand for the bytes 0x22 0x5C 0x08 0x0C 0x0A 0x0D 0x09.
EscapeTable ==
    (34 :> 34) @@ (92 :> 92) @@ (98 :> 8) @@ (102 :> 12) @@ (110 :> 10)
    @@ (114 :> 13) @@ (116 :> 9)

\* The value of each byte as a hex digit of either letter case, -1 if none.
HexTable ==
    [c \in 0 .. 255 |->
        IF \E d \in 0 .. 15 : c \in {HexChar(d, TRUE), HexChar(d, FALSE)}
        THEN CHOOSE d \in 0 .. 15 : c \in {HexChar(d, TRUE), HexChar(d, FALSE)}
        ELSE 0 - 1]

HexValue(c) == HexTable[c]

\* The first of the four places b[i] .. b[i+3] that holds no hex digit (4 if
\* all do); a place past the end of b holds none.
FirstNonHex(b, i) ==
    CHOOSE k \in 0 .. 4 :
        /\ \A j \in 0 .. k - 1 : i + j <= Len(b) /\ HexValue(b[i + j]) >= 0
        /\ k < 4 => (i + k > Len(b) \/ HexValue(b[i + k]) < 0)

\* The code unit written at b[i] .. b[i+3]: "ok" and its value, else how the
\* reading ends.
CodeUnit(b, i) ==
    LET k == FirstNonHex(b, i)
    IN  IF k = 4
        THEN [st |-> "ok",
              v |-> 4096 * HexValue(b[i]) + 256 * HexValue(b[i + 1])
                    + 16 * HexValue(b[i + 2]) + HexValue(b[i + 3])]
        ELSE IF i + k > Len(b) THEN [st |-> "ends", v |-> 0]
        ELSE [st |-> "bad", v |-> 0]

IsHigh(u) == u >= 55296 /\ u <= 56319
IsLow(u) == u >= 56320 /\ u <= 57343

\* The scalar value of the surrogate pair (h, l).
PairScalar(h, l) == (h - 55296) * 1024 + (l - 56320) + 65536

RECURSIVE ReadToken(_, _, _, _)

\* After the high surrogate h, whose escape ends before b[i].
ReadLow(b, i, out, h) ==
    IF i > Len(b) THEN TokenEnds
    ELSE IF b[i] # BACKSLASH THEN TokenBad
    ELSE IF i + 1 > Len(b) THEN TokenEnds
    ELSE IF b[i + 1] # Ch_u THEN TokenBad
    ELSE LET u == CodeUnit(b, i + 2)
         IN  IF u.st = "ends" THEN TokenEnds
             ELSE IF u.st = "bad" THEN TokenBad
             ELSE IF ~IsLow(u.v) THEN TokenBad
             ELSE ReadToken(b, i + 6, out \o encode_utf8(PairScalar(h, u.v)), TRUE)

\* After "\u", the code unit starting at b[i].
ReadUnit(b, i, out) ==
    LET u == CodeUnit(b, i)
    IN  IF u.st = "ends" THEN TokenEnds
        ELSE IF u.st = "bad" THEN TokenBad
        ELSE IF IsLow(u.v) THEN TokenBad
        ELSE IF IsHigh(u.v) THEN ReadLow(b, i + 4, out, u.v)
        ELSE ReadToken(b, i + 4, out \o encode_utf8(u.v), TRUE)

ReadToken(b, i, out, esc) ==
    IF i > Len(b) THEN TokenEnds
    ELSE IF b[i] = QUOTE THEN Token("closed", out, esc, i)
    ELSE IF b[i] # BACKSLASH THEN ReadToken(b, i + 1, Append(out, b[i]), esc)
    ELSE IF i + 1 > Len(b) THEN TokenEnds
    ELSE IF b[i + 1] \in DOMAIN EscapeTable
    THEN ReadToken(b, i + 2, Append(out, EscapeTable[b[i + 1]]), TRUE)
    ELSE IF b[i + 1] = Ch_u THEN ReadUnit(b, i + 2, out)
    ELSE TokenBad

\* The last call was string() on a buffer that opens a string token.
StringOnToken == op.name = "string" /\ IsPrefix(<<QUOTE>>, pre.bytes)

\* The token at the cursor the last call found.
TokenRead == ReadToken(Tail(pre.bytes), 1, <<>>, FALSE)

(* C3: string() fails with Eof whenever the buffer ends during string      *)
(* scanning: if the buffer opens with a double quote and runs out before   *)
(* a closing unescaped quote or a malformed escape is reached (with no     *)
(* further quote or backslash at all, right after a backslash, inside a \u *)
(* escape, or after a high surrogate), string() returns Err(Eof).          *)
C3_EofWhenBufferEnds ==
    (StringOnToken /\ TokenRead.st = "ends") => res = Err("Eof")

(* C4: every scan operation terminates on every finite buffer: each call   *)
(* returns a value or a failure; the searches of string() for the next     *)
(* quote or backslash stop when the unread bytes are exhausted.            *)
C4_EveryScanReturns == res.kind \in {"none", "ok", "err"}

\* The number of bytes of b before its first quote or backslash.
ContentLen(b) ==
    CHOOSE k \in 0 .. Len(b) :
        /\ \A j \in 1 .. k : b[j] \notin {QUOTE, BACKSLASH}
        /\ k < Len(b) => b[k + 1] \in {QUOTE, BACKSLASH}

\* The byte of b that ends its content: a quote, a backslash, or -1 if none.
FirstDelimiter(b) == IF ContentLen(b) < Len(b) THEN b[ContentLen(b) + 1] ELSE 0 - 1

(* C5: the fast path of string().  On a double quote, k content bytes that *)
(* hold no quote and no backslash and are valid UTF-8, and a double quote, *)
(* string() returns Slice of exactly the k content bytes and has consumed  *)
(* exactly k + 2 bytes, the bytes after the closing quote being unread;    *)
(* when the content holds no newline, column has grown by k + 2.           *)
C5_FastPath ==
    StringOnToken
    => LET k == ContentLen(Tail(pre.bytes))
           content == SubSeq(pre.bytes, 2, k + 1)
       IN  (/\ k + 1 < Len(pre.bytes)
            /\ pre.bytes[k + 2] = QUOTE
            /\ utf8_ok(content, 0))
           => /\ res = Ok(Slice(content))
              /\ bytes = Drop(pre.bytes, k + 2)
              /\ Newlines(content) = 0
                 => /\ column = pre.column + k + 2
                    /\ line = pre.line

\* string() on "e-acute" followed by a byte: two content bytes, one
\* character, and the byte after the closing quote left unread.
C5_Witness ==
    /\ op.name = "string"
    /\ pre.bytes = <<QUOTE, 195, 169, QUOTE, Ch_a>>
    /\ res = Ok(Slice(<<195, 169>>))
    /\ bytes = <<Ch_a>>
    /\ column = 5

(* C6: the variant a successful string() returns is decided by the first   *)
(* delimiter found: Slice if and only if no backslash comes before the     *)
(* closing quote, Allocated if and only if an escape was read; after the   *)
(* first escape the result is Allocated also when no later segment holds   *)
(* an escape.                                                              *)
C6_VariantByFirstDelimiter ==
    (StringOnToken /\ res.kind = "ok")
    => LET first == FirstDelimiter(Tail(pre.bytes))
       IN  /\ res.val.variant \in {"Slice", "Allocated"}
           /\ res.val.variant = "Slice" <=> first = QUOTE
           /\ res.val.variant = "Allocated" <=> first = BACKSLASH
           /\ res.val.variant = "Allocated" <=> TokenRead.esc

\* string() on "\na": the escape comes first, the segment behind it holds
\* none, and the result is Allocated.
C6_Witness ==
    /\ op.name = "string"
    /\ pre.bytes = <<QUOTE, BACKSLASH, Ch_n, Ch_a, QUOTE>>
    /\ res = Ok(Allocated(<<NL, Ch_a>>))

(* C7: for a string token with escapes, the Allocated result is, in the    *)
(* order of the buffer, the concatenation of every verbatim segment and    *)
(* of the decoding of every escape (\" \\ \b \f \n \r \t being the bytes   *)
(* 0x22 0x5C 0x08 0x0C 0x0A 0x0D 0x09): no content byte is dropped,        *)
(* doubled or moved; and on success the cursor stands right after the      *)
(* closing quote.                                                          *)
C7_AllocatedIsDecoding ==
    StringOnToken
    => LET t == TokenRead
       IN  /\ (t.st = "closed" /\ t.esc /\ utf8_ok(t.out, 0))
              => /\ res = Ok(Allocated(t.out))
                 /\ bytes = Drop(pre.bytes, 1 + t.used)
           /\ (res.kind = "ok" /\ res.val.variant = "Allocated")
              => /\ t.st = "closed"
                 /\ res.val.bytes = t.out
                 /\ bytes = Drop(pre.bytes, 1 + t.used)

\* string() on "a\na": a segment, an escape, a segment.
C7_Witness ==
    /\ op.name = "string"
    /\ pre.bytes = <<QUOTE, Ch_a, BACKSLASH, Ch_n, Ch_a, QUOTE>>
    /\ res = Ok(Allocated(<<Ch_a, NL, Ch_a>>))
    /\ bytes = <<>>

\* The buffer is "\uHHHH\uLLLL" with a high and a low surrogate.
IsPairToken(b) ==
    /\ Len(b) = 14
    /\ b[1] = QUOTE /\ b[2] = BACKSLASH /\ b[3] = Ch_u
    /\ CodeUnit(b, 4).st = "ok" /\ IsHigh(CodeUnit(b, 4).v)
    /\ b[8] = BACKSLASH /\ b[9] = Ch_u
    /\ CodeUnit(b, 10).st = "ok" /\ IsLow(CodeUnit(b, 10).v)
    /\ b[14] = QUOTE

\* s is the four-byte UTF-8 encoding of the scalar value n.
IsUtf8Of4(s, n) ==
    /\ Len(s) = 4
    /\ s[1] \in 240 .. 247
    /\ \A k \in 2 .. 4 : s[k] \in 128 .. 191
    /\ n = (s[1] - 240) * 262144 + (s[2] - 128) * 4096 + (s[3] - 128) * 64
           + (s[4] - 128)

(* C8: for a high code unit H in D800..DBFF and a low code unit L in       *)
(* DC00..DFFF, \uHHHH followed at once by \uLLLL in a string decodes to    *)
(* the one scalar value ((H - D800) << 10 | (L - DC00)) + 10000 (hex),     *)
(* which lies in 10000..10FFFF, and its UTF-8 encoding is appended; the    *)
(* four hex digits of a code unit are taken in either letter case and      *)
(* accumulated without overflow.                                           *)
C8_SurrogatePair ==
    (op.name = "string" /\ IsPairToken(pre.bytes))
    => LET n == PairScalar(CodeUnit(pre.bytes, 4).v, CodeUnit(pre.bytes, 10).v)
       IN  /\ n \in 65536 .. 1114111
           /\ res.kind = "ok"
           /\ res.val.variant = "Allocated"
           /\ IsUtf8Of4(res.val.bytes, n)
           /\ bytes = <<>>

\* string() on the surrogate pair of U+1F600, the high unit written
\* with lower case digits and the low one with upper case digits.
C8_Witness ==
    /\ op.name = "string"
    /\ pre.bytes = <<QUOTE>> \o UnicodeEscape(55357, FALSE)
                   \o UnicodeEscape(56832, TRUE) \o <<QUOTE>>
    /\ res = Ok(Allocated(<<240, 159, 152, 128>>))

(* C9: string() fails with InvalidEscape for every malformed escape it     *)
(* reaches: a \u code unit in DC00..DFFF with no high surrogate before it; *)
(* a high surrogate whose next two bytes are not a backslash and 'u'; a    *)
(* high surrogate followed by \u and a code unit outside DC00..DFFF; a     *)
(* byte that is no hex digit among the four digits; an escape character    *)
(* other than " \ b f n r t u.                                             *)
C9_InvalidEscape ==
    (StringOnToken /\ TokenRead.st = "bad") => res = Err("InvalidEscape")

\* string() on "\uD800\xDC00": a high surrogate, a backslash, and a byte
\* that is not 'u' where the low surrogate's escape should start.
C9_Witness ==
    /\ op.name = "string"
    /\ pre.bytes = <<QUOTE>> \o UnicodeEscape(55296, TRUE) \o <<BACKSLASH, Ch_x>>
                   \o Hex4(56320, TRUE) \o <<QUOTE>>
    /\ res = Err("InvalidEscape")

\* The length of the longest run of ASCII digits that b starts with.
DigitRun(b) ==
    CHOOSE k \in 0 .. Len(b) :
        /\ \A j \in 1 .. k : b[j] \in 48 .. 57
        /\ k < Len(b) => b[k + 1] \notin 48 .. 57

\* s without its leading zeros.
RECURSIVE Significant(_)
Significant(s) == IF s # <<>> /\ s[1] = 48 THEN Significant(Tail(s)) ELSE s

\* The number a short run of digits writes in decimal.
RECURSIVE Decimal(_)
Decimal(s) ==
    IF s = <<>> THEN 0
    ELSE 10 * Decimal(SubSeq(s, 1, Len(s) - 1)) + (s[Len(s)] - 48)

\* The largest value of the target type, which has three digits.
TypeMax(T) == IF T = "u8" THEN 255 ELSE 127

\* The number the digits s write is a value of the target type T.
Fits(s, T) ==
    \/ Len(Significant(s)) < 3
    \/ Len(Significant(s)) = 3 /\ Decimal(Significant(s)) <= TypeMax(T)

(* C10: unsigned_integer scans the maximal run of ASCII digits at the      *)
(* cursor.  If the run is empty it fails with Eof; otherwise it consumes   *)
(* exactly the run, so that the next unread byte, if any, is no digit,     *)
(* whether the parse succeeds or fails, and returns the run's decimal      *)
(* value when it fits the target type and ExpectedInteger when not.        *)
C10_UnsignedInteger ==
    op.name = "unsigned_integer"
    => LET n == DigitRun(pre.bytes)
           run == SubSeq(pre.bytes, 1, n)
       IN  IF n = 0 THEN res = Err("Eof")
           ELSE /\ bytes = Drop(pre.bytes, n)
                /\ bytes # <<>> => bytes[1] \notin 48 .. 57
                /\ IF Fits(run, op.arg)
                   THEN res = Ok(Decimal(Significant(run)))
                   ELSE res = Err("ExpectedInteger")

\* unsigned_integer::<u8> on "256-": the run does not fit, and is consumed.
C10_Witness ==
    /\ op.name = "unsigned_integer"
    /\ op.arg = "u8"
    /\ pre.bytes = <<50, 53, 54, MINUS>>
    /\ res = Err("ExpectedInteger")
    /\ bytes = <<MINUS>>

\* The decimal text of the natural number n.
RECURSIVE DecimalText(_)
DecimalText(n) ==
    IF n < 10 THEN <<48 + n>> ELSE DecimalText(n \div 10) \o <<48 + (n % 10)>>

\* The decimal text of the integer v: '-' before a negative v, and '+' or
\* nothing before any other.
SignedText(v, plus) ==
    IF v < 0 THEN <<MINUS>> \o DecimalText(0 - v)
    ELSE (IF plus THEN <<PLUS>> ELSE <<>>) \o DecimalText(v)

\* The values of the signed target type T.
TypeMin(T) == 0 - TypeMax(T) - 1
ValuesOf(T) == TypeMin(T) .. TypeMax(T)

(* C11: for every integer v of the signed target type T, from T's minimum  *)
(* to T's maximum, signed_integer::<T> applied to the decimal text of v    *)
(* ('-' before a negative v, '+' or nothing before any other) returns v.   *)
C11_SignedInteger ==
    op.name = "signed_integer"
    => \A v \in ValuesOf(op.arg) : \A plus \in BOOLEAN :
           pre.bytes = SignedText(v, plus) => res = Ok(v)

\* The operations that can fail with Eof.
EofOps ==
    {"advance", "advance_single", "eat_byte", "char", "identifier",
     "unsigned_integer", "signed_integer", "string"}

(* C12: Eof means that the buffer ran out inside a token.  Whenever        *)
(* advance, eat_byte, char, identifier, unsigned_integer, signed_integer   *)
(* or string fails with Eof, no unread byte was left where the operation   *)
(* needed its next byte, so none is left after it; an operation that meets *)
(* a byte it cannot use fails with another kind, never with Eof.           *)
C12_EofMeansExhausted ==
    (op.name \in EofOps /\ res = Err("Eof")) => bytes = <<>>

\* The bytes of "true" and of "false".
TrueText == <<116, 114, 117, 101>>
FalseText == <<102, 97, 108, 115, 101>>

(* C13: bool() returns true and consumes exactly 4 bytes when the unread   *)
(* bytes start with "true", returns false and consumes exactly 5 bytes     *)
(* when they start with "false", and fails with ExpectedBoolean on any     *)
(* other buffer, the empty one and proper prefixes of the words included.  *)
C13_Bool ==
    op.name = "bool"
    => IF IsPrefix(TrueText, pre.bytes)
       THEN res = Ok(TRUE) /\ bytes = Drop(pre.bytes, 4)
       ELSE IF IsPrefix(FalseText, pre.bytes)
       THEN res = Ok(FALSE) /\ bytes = Drop(pre.bytes, 5)
       ELSE res = Err("ExpectedBoolean")

\* bool() on "false," returns false and leaves the comma unread.
C13_Witness ==
    /\ op.name = "bool"
    /\ pre.bytes = FalseText \o <<COMMA>>
    /\ res = Ok(FALSE)
    /\ bytes = <<COMMA>>

\* The bytes an identifier may start with, and those it may go on with.
IdentStart == (65 .. 90) \cup (97 .. 122) \cup {95}
IdentBytes == IdentStart \cup (48 .. 57)

\* The length of the longest run of bytes of S that b starts with.
RunLen(b, S) ==
    CHOOSE k \in 0 .. Len(b) :
        /\ \A j \in 1 .. k : b[j] \in S
        /\ k < Len(b) => b[k + 1] \notin S

(* C14: identifier() succeeds exactly when the next byte is an ASCII       *)
(* letter or an underscore; it then returns the maximal run of letters,    *)
(* digits and underscores (not empty, its first byte no digit), consumes   *)
(* exactly that run and leaves a next byte, if any, that is no identifier  *)
(* byte; it fails with Eof on the empty buffer and with                    *)
(* ExpectedIdentifier when the first byte is anything else, a digit        *)
(* included.                                                               *)
C14_Identifier ==
    op.name = "identifier"
    => IF pre.bytes = <<>> THEN res = Err("Eof")
       ELSE IF pre.bytes[1] \notin IdentStart THEN res = Err("ExpectedIdentifier")
       ELSE LET n == RunLen(pre.bytes, IdentBytes)
            IN  /\ n >= 1
                /\ res = Ok(SubSeq(pre.bytes, 1, n))
                /\ res.val[1] \notin 48 .. 57
                /\ bytes = Drop(pre.bytes, n)
                /\ bytes # <<>> => bytes[1] \notin IdentBytes

\* identifier() on "_9[": the run is "_9" and '[' stays unread.
C14_Witness ==
    /\ op.name = "identifier"
    /\ pre.bytes = <<95, 57, 91>>
    /\ res = Ok(<<95, 57>>)
    /\ bytes = <<91>>

\* Newline, tab, carriage return and space.
Blank == {10, 9, 13, 32}

(* C15: comma() returns true exactly when the next byte is a comma, and    *)
(* then consumes the comma and the maximal run of newline, tab, carriage   *)
(* return and space bytes behind it, so that the next unread byte, if any, *)
(* is none of them; otherwise it returns false and leaves the unread       *)
(* bytes, line and column as they were; it never fails, at the end of the  *)
(* buffer neither.                                                         *)
C15_Comma ==
    op.name = "comma"
    => /\ res.kind = "ok"
       /\ IF pre.bytes # <<>> /\ pre.bytes[1] = 44
          THEN /\ res.val = TRUE
               /\ bytes = Drop(pre.bytes, 1 + RunLen(Tail(pre.bytes), Blank))
               /\ bytes # <<>> => bytes[1] \notin Blank
          ELSE /\ res.val = FALSE
               /\ cursor = pre

\* comma() on a comma, a newline, a space and a form feed: the form feed
\* stays unread, in column 2 of line 2.
C15_Witness ==
    /\ op.name = "comma"
    /\ pre = Cur(<<44, 10, 32, 12>>, 1, 1)
    /\ res = Ok(TRUE)
    /\ cursor = Cur(<<12>>, 2, 2)

\* What a character literal at the start of b is: the result, and the
\* number of bytes of the literal when it is well formed.  The content byte
\* is any byte but a backslash, which starts an escape.
CharLiteral(b) ==
    IF b = <<>> \/ b[1] # 39 THEN [res |-> Err("ExpectedChar"), used |-> 0]
    ELSE IF Len(b) < 2 THEN [res |-> Err("Eof"), used |-> 0]
    ELSE IF b[2] # 92
    THEN IF Len(b) >= 3 /\ b[3] = 39 THEN [res |-> Ok(b[2]), used |-> 3]
         ELSE [res |-> Err("ExpectedChar"), used |-> 0]
    ELSE IF Len(b) < 3 THEN [res |-> Err("Eof"), used |-> 0]
    ELSE IF b[3] \notin {92, 39} THEN [res |-> Err("InvalidEscape"), used |-> 0]
    ELSE IF Len(b) >= 4 /\ b[4] = 39 THEN [res |-> Ok(b[3]), used |-> 4]
    ELSE [res |-> Err("ExpectedChar"), used |-> 0]

(* C16: char() accepts exactly the shapes quote-byte-quote and             *)
(* quote-backslash-E-quote with E a backslash or a single quote, returns   *)
(* the byte (or E) as a code point in 0..255 and consumes exactly 3 or 4   *)
(* bytes; a missing leading or trailing single quote fails with            *)
(* ExpectedChar, a backslash followed by any other byte with               *)
(* InvalidEscape, and a buffer that ends before the content byte or the    *)
(* escaped byte with Eof.                                                  *)
C16_Char ==
    op.name = "char"
    => /\ res = CharLiteral(pre.bytes).res
       /\ res.kind = "ok"
          => /\ res.val \in 0 .. 255
             /\ CharLiteral(pre.bytes).used \in {3, 4}
             /\ bytes = Drop(pre.bytes, CharLiteral(pre.bytes).used)

\* char() on '\\' (quote, backslash, backslash, quote) returns a backslash.
C16_Witness ==
    /\ op.name = "char"
    /\ pre.bytes = <<39, 92, 92, 39>>
    /\ res = Ok(92)
    /\ bytes = <<>>

(* C17: advance(n) succeeds and consumes exactly n bytes when at least n   *)
(* bytes are unread, and fails with Eof when fewer are; advance_single and *)
(* eat_byte consume exactly one byte (eat_byte returns it), and fail with  *)
(* Eof and leave the cursor as it was when no byte is unread; peek never   *)
(* changes the cursor.                                                     *)
C17_AdvanceEatPeek ==
    /\ op.name = "advance"
       => IF op.arg <= Len(pre.bytes)
          THEN res = Ok(<<>>) /\ bytes = Drop(pre.bytes, op.arg)
          ELSE res = Err("Eof")
    /\ op.name = "advance_single"
       => IF pre.bytes # <<>>
          THEN res = Ok(<<>>) /\ bytes = Drop(pre.bytes, 1)
          ELSE res = Err("Eof") /\ cursor = pre
    /\ op.name = "eat_byte"
       => IF pre.bytes # <<>>
          THEN res = Ok(pre.bytes[1]) /\ bytes = Drop(pre.bytes, 1)
          ELSE res = Err("Eof") /\ cursor = pre
    /\ op.name = "peek" => cursor = pre

\* advance(2) with one byte unread fails with Eof.
C17_Witness ==
    /\ op.name = "advance"
    /\ op.arg = 2
    /\ Len(pre.bytes) = 1
    /\ res = Err("Eof")

\* The three names, as text.
NameOfBit ==
    (1 :> Ident_unwrap_newtypes) @@ (2 :> Ident_implicit_some)
    @@ (4 :> Ident_unwrap_variant_newtypes)

(* C18: from_ident(name) returns a flag set for exactly the three names    *)
(* "unwrap_newtypes", "implicit_some" and "unwrap_variant_newtypes", each  *)
(* result holding exactly the one flag of that name (the three distinct    *)
(* single bits 0x1, 0x2, 0x4), and returns None for every other string,    *)
(* case variants and the empty string included; the default flag set is    *)
(* empty.                                                                  *)
C18_FromIdent ==
    /\ op.name = "from_ident"
       => /\ \A b \in DOMAIN NameOfBit : op.arg = NameOfBit[b] <=> res.val = <<b>>
          /\ (\A b \in DOMAIN NameOfBit : op.arg # NameOfBit[b]) <=> res.val = <<>>
    /\ op.name \in {"new", "default"} => ext = 0

\* from_ident("IMPLICIT_SOME") returns None.
C18_Witness ==
    /\ op.name = "from_ident"
    /\ op.arg = InUpperCase(Ident_implicit_some, 1 .. 13)
    /\ op.arg # Ident_implicit_some
    /\ res = Ok(<<>>)

C20_RejectionKeepsCursor ==
    /\ (op.name = "bool" /\ res = Err("ExpectedBoolean")) => cursor = pre
    /\ (op.name = "identifier" /\ res \in {Err("ExpectedIdentifier"), Err("Eof")})
       => cursor = pre
    /\ (op.name = "string" /\ res = Err("ExpectedString")) => cursor = pre
    /\ (op.name = "char" /\ res = Err("ExpectedChar") /\ ~IsPrefix(<<39>>, pre.bytes))
       => cursor = pre
    /\ (op.name = "unsigned_integer" /\ res = Err("Eof")) => cursor = pre

\* string() rejects a buffer that starts with a comma, in the middle of a
\* line, and the cursor stays where it was.
C20_Witness ==
    /\ op.name = "string"
    /\ res = Err("ExpectedString")
    /\ IsPrefix(<<44>>, pre.bytes)
    /\ pre.column > 1
    /\ cursor = pre

====
